---- MODULE Spec2Model ----
(***************************************************************************)
(* The streaming block encoder of lz4jb (Lz4BlockOutputBase) as a state    *)
(* machine: construction, write, flush and drop over a byte sink that may  *)
(* fail, with the block header, the compression backend, the checksum and  *)
(* the mirror decoder it depends on.                                       *)
(***************************************************************************)
EXTENDS Integers, Sequences, FiniteSets, TLC

\* ------------------------------------------------------------------ bounds

\* Calls (write / flush / drop) made on one encoder in a run.
MaxOps == 3

\* Backend or sink failures injected in a run.
MaxFailures == 1

\* Characters of the longest path the command line is first given.
MaxPathLen == 3

\* Characters of the longest extension.
MaxExtLen == 2

\* FileDesc calls made in a run.
MaxCalls == 2

\* Bytes of the longest buffer given to write_all.
MaxWriteAll == 130

\* ------------------------------------------------------- program constants

MIN_BLOCK_SIZE == 64

MAX_BLOCK_SIZE == 33554432

DEFAULT_BLOCK_SIZE == 65536

COMPRESSION_LEVEL_BASE == 10

MAX_COMPRESSION_LEVEL == 15

METHOD_RAW == 16

METHOD_LZ4 == 32

HEADER_LEN == 21

MAGIC == <<76, 90, 52, 66, 108, 111, 99, 107>>

\* ------------------------------------------------------------ byte helpers

Min(a, b) == IF a <= b THEN a ELSE b

Pow2(n) == 2 ^ n

Take(s, n) == SubSeq(s, 1, Min(n, Len(s)))

Skip(s, n) == SubSeq(s, n + 1, Len(s))

\* `x as u32` of a buffer length: the buffers hold at most MAX_BLOCK_SIZE bytes
\* (2^25) and twice that for the staging buffer, so the cast never truncates.
as_u32(x) == x

\* u32::to_le_bytes
le32(x) == << x % 256, (x \div 256) % 256, (x \div 65536) % 256, (x \div 16777216) % 256 >>

\* u32::from_le_bytes
from_le32(b) == b[1] + 256 * b[2] + 65536 * b[3] + 16777216 * b[4]

\* &buf[..n] of a zeroed buffer of which buf is the prefix written so far.
slice_to(buf, n) == [i \in 1..n |-> IF i <= Len(buf) THEN buf[i] ELSE 0]

\* buf_into[..data.len()].copy_from_slice(data), buf_into = buf[at..]; the rest of
\* the buffer keeps what it held.
overwrite(buf, at, data) ==
  slice_to(buf, at) \o data \o Skip(buf, at + Len(data))

\* ------------------------------------------------- CompressionLevel (header)

\* CompressionLevel::from_block_size: the size class of a block size, or an error
\* outside [MIN_BLOCK_SIZE, MAX_BLOCK_SIZE]. The class is the smallest level whose
\* bound 2^(COMPRESSION_LEVEL_BASE + level) holds block_size bytes.
from_block_size(block_size) ==
  IF block_size < MIN_BLOCK_SIZE \/ block_size > MAX_BLOCK_SIZE
  THEN [ok |-> FALSE, level |-> 0]
  ELSE [ok |-> TRUE,
        level |-> CHOOSE l \in 0..MAX_COMPRESSION_LEVEL :
                    /\ Pow2(COMPRESSION_LEVEL_BASE + l) >= block_size
                    /\ \A k \in 0..(l - 1) : Pow2(COMPRESSION_LEVEL_BASE + k) < block_size]

\* CompressionLevel::get_max_decompressed_buffer_len
get_max_decompressed_buffer_len(level) == Pow2(COMPRESSION_LEVEL_BASE + level)

\* ------------------------------------------------------ compression backend

\* The backend's encoding of s[lo..hi]: (count, byte) pairs of its runs of equal
\* bytes, each count at most 255. The two halves are encoded and their touching
\* runs joined.
RECURSIVE encode_range(_, _, _)
encode_range(s, lo, hi) ==
  IF lo > hi THEN <<>>
  ELSE IF lo = hi THEN <<1, s[lo]>>
  ELSE LET mid == (lo + hi) \div 2
           l == encode_range(s, lo, mid)
           r == encode_range(s, mid + 1, hi)
           n == Len(l)
       IN IF l[n] = r[2] /\ l[n - 1] + r[1] <= 255
          THEN SubSeq(l, 1, n - 2) \o <<l[n - 1] + r[1], r[2]>> \o SubSeq(r, 3, Len(r))
          ELSE l \o r

encode_runs(s) == encode_range(s, 1, Len(s))

\* Compression::get_maximum_compressed_buffer_len: an upper bound of the output of
\* compress for an input of input_len bytes.
get_maximum_compressed_buffer_len(input_len) == 2 * input_len

\* Compression::compress(input, output): Ok(the compressed bytes, which fill the
\* prefix of output) or an error: when output is too small, or when the backend
\* fails (fail, the environment's choice).
compress(input, output_len, fail) ==
  LET out == encode_runs(input)
  IN IF fail \/ Len(out) > output_len
     THEN [ok |-> FALSE, out |-> <<>>]
     ELSE [ok |-> TRUE, out |-> out]

\* The bytes of the pairs lo..hi of p.
RECURSIVE decode_range(_, _, _)
decode_range(p, lo, hi) ==
  IF lo > hi THEN <<>>
  ELSE IF lo = hi THEN [i \in 1..p[2 * lo - 1] |-> p[2 * lo]]
  ELSE LET mid == (lo + hi) \div 2
       IN decode_range(p, lo, mid) \o decode_range(p, mid + 1, hi)

\* Compression::decompress(input, output): inflates the pairs; an error when the
\* input is malformed or does not give expected_len bytes.
decode_runs(p) ==
  IF Len(p) % 2 # 0 \/ \E k \in 1..(Len(p) \div 2) : p[2 * k - 1] < 1
  THEN [ok |-> FALSE, out |-> <<>>]
  ELSE [ok |-> TRUE, out |-> decode_range(p, 1, Len(p) \div 2)]

decompress(input, expected_len) ==
  LET r == decode_runs(input)
  IN IF r.ok /\ Len(r.out) = expected_len THEN r ELSE [ok |-> FALSE, out |-> <<>>]

\* ---------------------------------------------------------------- checksum

\* The sum of i * (s[i] + 1) over lo..hi: a digest that depends on every byte and
\* on its place.
RECURSIVE weighted_sum(_, _, _)
weighted_sum(s, lo, hi) ==
  IF lo > hi THEN 0
  ELSE IF lo = hi THEN lo * (s[lo] + 1)
  ELSE LET mid == (lo + hi) \div 2
       IN weighted_sum(s, lo, mid) + weighted_sum(s, mid + 1, hi)

\* Lz4BlockHeader::default_checksum: the digest without its 4 high bits.
default_checksum(bytes) == (weighted_sum(bytes, 1, Len(bytes)) + 1) % Pow2(28)

\* Checksum::run with the checksum function given at construction.
checksum_run(bytes) == default_checksum(bytes)

\* ------------------------------------------------------------ block header

\* Lz4BlockHeader::write's bytes: magic, token (method | level), compressed_len,
\* decompressed_len and checksum as u32 little-endian.
header_bytes(h) ==
  MAGIC \o <<h.compression_method + h.compression_level>>
        \o le32(h.compressed_len) \o le32(h.decompressed_len) \o le32(h.checksum)

\* Lz4BlockHeader::read of the HEADER_LEN bytes b.
header_read(b) ==
  LET token  == b[9]
      method == (token \div 16) * 16
      level  == token % 16
  IN [ok |-> /\ Take(b, 8) = MAGIC
             /\ method \in {METHOD_RAW, METHOD_LZ4},
      compression_method |-> method,
      compression_level |-> level,
      compressed_len |-> from_le32(SubSeq(b, 10, 13)),
      decompressed_len |-> from_le32(SubSeq(b, 14, 17)),
      checksum |-> from_le32(SubSeq(b, 18, 21))]

\* ------------------------------------------------------------ block decoder

BadStream == [ok |-> FALSE, out |-> <<>>, blocks |-> 0]

\* The mirror decoder over the whole source: header, payload (verbatim when Raw,
\* decompressed when Lz4), checksum check, until the source ends at a header
\* boundary. blocks counts the framed blocks read.
RECURSIVE decode_stream(_)
decode_stream(src) ==
  IF src = <<>> THEN [ok |-> TRUE, out |-> <<>>, blocks |-> 0]
  ELSE IF Len(src) < HEADER_LEN THEN BadStream
  ELSE
    LET h == header_read(Take(src, HEADER_LEN))
    IN IF ~h.ok \/ Len(src) < HEADER_LEN + h.compressed_len
          \/ h.decompressed_len > get_max_decompressed_buffer_len(h.compression_level)
       THEN BadStream
       ELSE
         LET payload == SubSeq(src, HEADER_LEN + 1, HEADER_LEN + h.compressed_len)
             data == IF h.compression_method = METHOD_RAW
                     THEN [ok |-> Len(payload) = h.decompressed_len, out |-> payload]
                     ELSE decompress(payload, h.decompressed_len)
             rest == decode_stream(Skip(src, HEADER_LEN + h.compressed_len))
         IN IF ~data.ok \/ checksum_run(data.out) # h.checksum \/ ~rest.ok
            THEN BadStream
            ELSE [ok |-> TRUE, out |-> data.out \o rest.out, blocks |-> 1 + rest.blocks]

\* ------------------------------------------------------------------ state

VARIABLES
  phase,                \* "new": not built; "rejected": with_checksum returned Err;
                        \* "live": the encoder exists; "dropped": it was dropped
  block_size,           \* the block_size given to with_checksum
  writer,               \* the sink: the bytes it holds
  compression_level,    \* Lz4BlockOutputBase.compression_level
  write_ptr,            \* Lz4BlockOutputBase.write_ptr
  decompressed_buf,     \* Lz4BlockOutputBase.decompressed_buf: the bytes of its
                        \* prefix written so far; the rest is still 0
  decompressed_buf_len, \* decompressed_buf.len()
  compressed_buf,       \* Lz4BlockOutputBase.compressed_buf: likewise its prefix
  compressed_buf_len,   \* compressed_buf.len()
  pattern,              \* the caller's data: which byte stream it writes
  accepted,             \* history: the bytes write has accepted (buf[..n] of Ok(n))
  emitted,              \* history: one record per block header written to the sink
  sink_calls,           \* history: the calls made on the sink
  last,                 \* history: the last call made on the encoder and its result
  prev,                 \* history: the call before it
  nops,                 \* calls made on the encoder
  flushes,              \* history: whether the caller has called flush
  nfail,                \* failures injected so far
  fd_path,              \* command line: the file name the next FileDesc call is given
  fd_ext,               \* command line: the extension (--suffix)
  fd_calls,             \* history: the FileDesc calls made and their results
  todo,                 \* write_all: the bytes of its buffer not yet written
  wa                    \* write_all: "idle" (not called), "running", "done" (it
                        \* returned Ok), "failed" (it returned an error)

vars == << phase, block_size, writer, compression_level, write_ptr, decompressed_buf,
           decompressed_buf_len, compressed_buf, compressed_buf_len, pattern,
           accepted, emitted, sink_calls, last, prev, nops, flushes, nfail,
           fd_path, fd_ext, fd_calls, todo, wa >>

\* The encoder's part of the state and the command line's.
encoder_vars == << phase, block_size, writer, compression_level, write_ptr,
                   decompressed_buf, decompressed_buf_len, compressed_buf,
                   compressed_buf_len, pattern, accepted, emitted, sink_calls, last,
                   prev, nops, flushes, nfail >>

file_vars == << fd_path, fd_ext, fd_calls >>

caller_vars == << todo, wa >>

\* The encoder object.
Self ==
  [ writer |-> writer, compression_level |-> compression_level, write_ptr |-> write_ptr,
    decompressed_buf |-> decompressed_buf, decompressed_buf_len |-> decompressed_buf_len,
    compressed_buf |-> compressed_buf, compressed_buf_len |-> compressed_buf_len ]

\* ------------------------------------------------------------------ inputs

\* Block sizes given to the constructor.
BlockSizes == {0, 63, MIN_BLOCK_SIZE, DEFAULT_BLOCK_SIZE, MAX_BLOCK_SIZE, 33554433, 67108864}

\* Lengths of the slices given to write.
WriteLens == {0, 1, 63, 64, 65}

\* The byte streams a caller writes: one repeated byte (the backend shrinks it) and
\* bytes that come in pairs (the backend gives as many bytes back, or more).
Patterns == {"dots", "pairs"}

\* Byte i (from 1) of the stream.
stream_byte(p, i) ==
  CASE p = "dots"  -> 46
    [] p = "pairs" -> ((i + 1) \div 2) % 256

\* The n bytes of the stream after its first from bytes.
stream_slice(p, from, n) == [i \in 1..n |-> stream_byte(p, from + i)]

\* What the environment makes fail in a call: nothing, the backend's compress, the
\* sink's write of the header or of the payload (after none or half of the bytes),
\* or the sink's flush.
NoFault == [at |-> "none", partial |-> FALSE]

Faults ==
  {NoFault, [at |-> "compress", partial |-> FALSE], [at |-> "flush", partial |-> FALSE]}
    \cup [at : {"header", "payload"}, partial : BOOLEAN]

\* --------------------------------------------------------------- the sink

\* Write::write_all(bytes) on the sink w; a failing call leaves a prefix written.
write_all(w, bytes, fail, partial) ==
  IF fail
  THEN [ok |-> FALSE, w |-> w \o Take(bytes, IF partial THEN Len(bytes) \div 2 ELSE 0)]
  ELSE [ok |-> TRUE, w |-> w \o bytes]

\* ------------------------------------------------------------ the encoder

\* with_checksum without the `?` on from_block_size: the encoder is built whatever
\* the block size.
with_checksum_unchecked(w, bs) ==
  [ok |-> TRUE,
   self |-> [ writer |-> w,
              compression_level |-> from_block_size(bs).level,
              write_ptr |-> 0,
              compressed_buf |-> <<>>,
              compressed_buf_len |->
                get_maximum_compressed_buffer_len(
                  get_max_decompressed_buffer_len(from_block_size(bs).level)),
              decompressed_buf |-> <<>>,
              decompressed_buf_len |-> bs ]]

\* with_checksum that gives the staging buffer the block size, not the backend's
\* estimate.
with_checksum_small_staging(w, bs) ==
  IF ~from_block_size(bs).ok
  THEN [ok |-> FALSE]
  ELSE [ok |-> TRUE,
        self |-> [ writer |-> w,
                   compression_level |-> from_block_size(bs).level,
                   write_ptr |-> 0,
                   compressed_buf |-> <<>>,
                   compressed_buf_len |-> bs,
                   decompressed_buf |-> <<>>,
                   decompressed_buf_len |-> bs ]]

\* Lz4BlockOutputBase::with_checksum(w, c, block_size, checksum)
with_checksum(w, bs) ==
  LET level == from_block_size(bs)
      compressed_len ==
        get_maximum_compressed_buffer_len(get_max_decompressed_buffer_len(level.level))
  IN IF ~level.ok
     THEN [ok |-> FALSE]
     ELSE [ok |-> TRUE,
           self |-> [ writer |-> w,
                      compression_level |-> level.level,
                      write_ptr |-> 0,
                      compressed_buf |-> <<>>,
                      compressed_buf_len |-> compressed_len,
                      decompressed_buf |-> <<>>,
                      decompressed_buf_len |-> bs ]]

\* What a call on the encoder gives back: res ("ok", "err", or "panic" for an
\* out-of-range slice), n (the count of Ok(n)), the encoder after the call, the
\* block headers it wrote, the sink calls it made, and the injected failure that
\* happened in it ("none" when none did).
Outcome(res, n, self, blocks, calls, fault) ==
  [res |-> res, n |-> n, self |-> self, blocks |-> blocks, calls |-> calls, fault |-> fault]

SinkCall(call, ok, n) == [call |-> call, ok |-> ok, n |-> n]

\* copy_to_buf that copies to the start of the buffer, not to write_ptr.
copy_to_buf_at_start(self, buf) ==
  IF Len(buf) > self.decompressed_buf_len - self.write_ptr
  THEN Outcome("err", 0, self, <<>>, <<>>, "none")
  ELSE Outcome("ok", Len(buf),
               [self EXCEPT !.decompressed_buf = overwrite(@, 0, buf),
                            !.write_ptr = @ + Len(buf)],
               <<>>, <<>>, "none")

\* copy_to_buf that advances write_ptr one byte too far.
copy_to_buf_off_by_one(self, buf) ==
  IF Len(buf) > self.decompressed_buf_len - self.write_ptr
  THEN Outcome("err", 0, self, <<>>, <<>>, "none")
  ELSE Outcome("ok", Len(buf),
               [self EXCEPT !.decompressed_buf = overwrite(@, self.write_ptr, buf),
                            !.write_ptr = @ + Len(buf) + 1],
               <<>>, <<>>, "none")

\* Lz4BlockOutputBase::copy_to_buf
copy_to_buf(self, buf) ==
  IF self.write_ptr > self.decompressed_buf_len
  THEN Outcome("panic", 0, self, <<>>, <<>>, "none")
  ELSE IF Len(buf) > self.decompressed_buf_len - self.write_ptr
  THEN Outcome("err", 0, self, <<>>, <<>>, "none")
  ELSE Outcome("ok", Len(buf),
               [self EXCEPT !.decompressed_buf = overwrite(@, self.write_ptr, buf),
                            !.write_ptr = @ + Len(buf)],
               <<>>, <<>>, "none")

\* remaining_buf_len that keeps one byte of the buffer back.
remaining_buf_len_short(self) ==
  IF self.write_ptr <= self.decompressed_buf_len
  THEN [ok |-> TRUE,
        n |-> IF self.decompressed_buf_len - self.write_ptr > 0
              THEN self.decompressed_buf_len - self.write_ptr - 1 ELSE 0]
  ELSE [ok |-> FALSE, n |-> 0]

\* Lz4BlockOutputBase::remaining_buf_len
remaining_buf_len(self) ==
  IF self.write_ptr <= self.decompressed_buf_len
  THEN [ok |-> TRUE, n |-> self.decompressed_buf_len - self.write_ptr]
  ELSE [ok |-> FALSE, n |-> 0]

\* The full-buffer test one byte early.
buffer_full_off_by_one(self) == self.write_ptr >= self.decompressed_buf_len - 1

\* write that flushes whenever bytes are buffered.
buffer_full_nonempty(self) == self.write_ptr > 0

\* write that never flushes the full buffer.
buffer_full_never(self) == FALSE

\* write: `if self.write_ptr == self.decompressed_buf.len()`
buffer_full(self) == self.write_ptr = self.decompressed_buf_len

\* The guard of flush with >= for >: an empty buffer is framed too.
has_buffered_always(self) == self.write_ptr >= 0

\* flush: `if self.write_ptr > 0`
has_buffered(self) == self.write_ptr > 0

\* The choice with <= for <: the compressed bytes win a tie.
choose_buf_le(compressed, decompressed) ==
  IF Len(compressed) <= Len(decompressed)
  THEN [compression_method |-> METHOD_LZ4, buf_to_write |-> compressed]
  ELSE [compression_method |-> METHOD_RAW, buf_to_write |-> decompressed]

\* flush: the choice of (compression_method, buf_to_write)
choose_buf(compressed, decompressed) ==
  IF Len(compressed) < Len(decompressed)
  THEN [compression_method |-> METHOD_LZ4, buf_to_write |-> compressed]
  ELSE [compression_method |-> METHOD_RAW, buf_to_write |-> decompressed]

\* The header with the original length in both length fields.
block_header_swapped(self, compression_method, buf_to_write, decompressed) ==
  [ compression_method |-> compression_method,
    compression_level |-> self.compression_level,
    compressed_len |-> as_u32(Len(decompressed)),
    decompressed_len |-> as_u32(Len(decompressed)),
    checksum |-> checksum_run(decompressed) ]

\* The header with the checksum of the bytes that go to the sink.
block_header_payload_checksum(self, compression_method, buf_to_write, decompressed) ==
  [ compression_method |-> compression_method,
    compression_level |-> self.compression_level,
    compressed_len |-> as_u32(Len(buf_to_write)),
    decompressed_len |-> as_u32(Len(decompressed)),
    checksum |-> checksum_run(buf_to_write) ]

\* flush: the Lz4BlockHeader it builds
block_header(self, compression_method, buf_to_write, decompressed) ==
  [ compression_method |-> compression_method,
    compression_level |-> self.compression_level,
    compressed_len |-> as_u32(Len(buf_to_write)),
    decompressed_len |-> as_u32(Len(decompressed)),
    checksum |-> checksum_run(decompressed) ]

\* flush that forgets to reset write_ptr.
reset_write_ptr_forgotten(self) == self

\* flush: `self.write_ptr = 0`
reset_write_ptr(self) == [self EXCEPT !.write_ptr = 0]

\* flush that sends the payload before the header.
sink_block_payload_first(self, f, h, buf_to_write, decompressed, compressed) ==
  LET pw == write_all(self.writer, buf_to_write, f.at = "payload", f.partial)
      hw == write_all(pw.w, header_bytes(h), f.at = "header", f.partial)
      c1 == SinkCall("payload", pw.ok, Len(pw.w) - Len(self.writer))
      c2 == SinkCall("header", hw.ok, Len(hw.w) - Len(pw.w))
      blk == [ header |-> h, input |-> decompressed, compressed |-> compressed,
               payload |-> buf_to_write, written |-> Len(pw.w) - Len(self.writer),
               sent |-> hw.ok ]
  IN IF ~pw.ok
     THEN Outcome("err", 0, [self EXCEPT !.writer = pw.w], <<>>, <<c1>>, "payload")
     ELSE Outcome(IF hw.ok THEN "ok" ELSE "err", 0, [self EXCEPT !.writer = hw.w],
                  <<blk>>, <<c1, c2>>, IF hw.ok THEN "none" ELSE "header")

\* flush: the header and then the payload go to the sink; each `?` returns the
\* error at once. decompressed and compressed are kept in the block's history
\* record.
sink_block(self, f, h, buf_to_write, decompressed, compressed) ==
  LET hw == write_all(self.writer, header_bytes(h), f.at = "header", f.partial)
      pw == write_all(hw.w, buf_to_write, f.at = "payload", f.partial)
      c1 == SinkCall("header", hw.ok, Len(hw.w) - Len(self.writer))
      c2 == SinkCall("payload", pw.ok, Len(pw.w) - Len(hw.w))
      blk == [ header |-> h, input |-> decompressed, compressed |-> compressed,
               payload |-> buf_to_write, written |-> Len(pw.w) - Len(hw.w),
               sent |-> pw.ok ]
  IN IF ~hw.ok
     THEN Outcome("err", 0, [self EXCEPT !.writer = hw.w], <<>>, <<c1>>, "header")
     ELSE Outcome(IF pw.ok THEN "ok" ELSE "err", 0, [self EXCEPT !.writer = pw.w],
                  <<blk>>, <<c1, c2>>, IF pw.ok THEN "none" ELSE "payload")

\* flush: the block is built from the choice ch and sent.
send_block(self, f, decompressed, compressed, ch) ==
  sink_block(self, f,
             block_header(self, ch.compression_method, ch.buf_to_write, decompressed),
             ch.buf_to_write, decompressed, compressed)

\* flush that resets write_ptr before the block is sent.
emit_block_reset_first(self, f, decompressed, c) ==
  IF ~c.ok
  THEN Outcome("err", 0, self, <<>>, <<>>, "compress")
  ELSE send_block([self EXCEPT !.compressed_buf = overwrite(@, 0, c.out), !.write_ptr = 0],
                  f, decompressed, c.out, choose_buf(c.out, decompressed))

\* flush: the match on compress's result c; Ok(s) leaves the compressed bytes in
\* compressed_buf[..s].
emit_block(self, f, decompressed, c) ==
  IF ~c.ok
  THEN Outcome("err", 0, self, <<>>, <<>>, "compress")
  ELSE send_block([self EXCEPT !.compressed_buf = overwrite(@, 0, c.out)], f,
                  decompressed, c.out, choose_buf(c.out, decompressed))

\* flush that compresses every byte the buffer has held, not decompressed_buf[..write_ptr].
flush_block_stale(self, f) ==
  emit_block(self, f, slice_to(self.decompressed_buf, Len(self.decompressed_buf)),
             compress(slice_to(self.decompressed_buf, Len(self.decompressed_buf)),
                      self.compressed_buf_len, f.at = "compress"))

\* flush: the body of `if self.write_ptr > 0`, on decompressed_buf[..write_ptr].
flush_block(self, f) ==
  emit_block(self, f, slice_to(self.decompressed_buf, self.write_ptr),
             compress(slice_to(self.decompressed_buf, self.write_ptr),
                      self.compressed_buf_len, f.at = "compress"))

\* flush: after the block b, `self.write_ptr = 0; self.writer.flush()?; Ok(())`.
finish_flush(b, f) ==
  IF b.res # "ok" THEN b
  ELSE Outcome(IF f.at = "flush" THEN "err" ELSE "ok", 0, reset_write_ptr(b.self),
               b.blocks, b.calls \o <<SinkCall("flush", f.at # "flush", 0)>>,
               IF f.at = "flush" THEN "flush" ELSE "none")

\* Lz4BlockOutputBase::flush
flush(self, f) ==
  finish_flush(IF has_buffered(self) THEN flush_block(self, f)
               ELSE Outcome("ok", 0, self, <<>>, <<>>, "none"),
               f)

\* write that flushes as soon as its copy has filled the buffer.
write_copy_eager(fl, buf, rem, cp) ==
  IF fl.res # "ok" THEN fl
  ELSE IF ~rem.ok THEN Outcome("err", 0, fl.self, fl.blocks, fl.calls, "none")
  ELSE IF cp.res = "ok" /\ buffer_full(cp.self)
  THEN [flush(cp.self, NoFault) EXCEPT !.n = cp.n, !.blocks = fl.blocks \o @,
                                       !.calls = fl.calls \o @]
  ELSE Outcome(cp.res, cp.n, cp.self, fl.blocks, fl.calls, "none")

\* write: after the flush of a full buffer (fl), the copy of
\* buf[..min(buf.len(), remaining_buf_len()?)].
write_copy(fl, buf, rem, cp) ==
  IF fl.res # "ok" THEN fl
  ELSE IF ~rem.ok THEN Outcome("err", 0, fl.self, fl.blocks, fl.calls, "none")
  ELSE Outcome(cp.res, cp.n, cp.self, fl.blocks, fl.calls, "none")

write_after_flush(fl, buf) ==
  write_copy(fl, buf, remaining_buf_len(fl.self),
             copy_to_buf(fl.self, Take(buf, Min(Len(buf), remaining_buf_len(fl.self).n))))

\* Lz4BlockOutputBase::write
write(self, buf, f) ==
  write_after_flush(IF buffer_full(self) THEN flush(self, f)
                    ELSE Outcome("ok", 0, self, <<>>, <<>>, "none"),
                    buf)

\* Drop for Lz4BlockOutputBase: `let _ = self.flush();`, the result is discarded.
discard(r) == [r EXCEPT !.res = "none"]

drop(self, f) == discard(flush(self, f))

\* ----------------------------------------------------------------- actions

\* No call yet.
NoCall == [op |-> "none", res |-> "none", n |-> 0, len |-> 0, fault |-> "none"]

Init ==
  /\ phase = "new"
  /\ block_size = 0
  /\ writer = <<>>
  /\ compression_level = 0
  /\ write_ptr = 0
  /\ decompressed_buf = <<>>
  /\ decompressed_buf_len = 0
  /\ compressed_buf = <<>>
  /\ compressed_buf_len = 0
  /\ pattern \in Patterns
  /\ accepted = <<>>
  /\ emitted = <<>>
  /\ sink_calls = <<>>
  /\ last = NoCall
  /\ prev = NoCall
  /\ nops = 0
  /\ flushes = FALSE
  /\ nfail = 0
  /\ fd_path = <<>>
  /\ fd_ext = <<>>
  /\ fd_calls = <<>>
  /\ todo = 0
  /\ wa = "idle"

\* The encoder's fields after a call.
SetSelf(self) ==
  /\ writer' = self.writer
  /\ compression_level' = self.compression_level
  /\ write_ptr' = self.write_ptr
  /\ decompressed_buf' = self.decompressed_buf
  /\ decompressed_buf_len' = self.decompressed_buf_len
  /\ compressed_buf' = self.compressed_buf
  /\ compressed_buf_len' = self.compressed_buf_len

\* The fields of an encoder just built.
SetSelfInit(self) ==
  /\ writer = self.writer
  /\ compression_level = self.compression_level
  /\ write_ptr = self.write_ptr
  /\ decompressed_buf = self.decompressed_buf
  /\ decompressed_buf_len = self.decompressed_buf_len
  /\ compressed_buf = self.compressed_buf
  /\ compressed_buf_len = self.compressed_buf_len

\* The history after the call op (given a slice of len bytes) with outcome r.
Record(op, len, r) ==
  /\ emitted' = emitted \o [i \in 1..Len(r.blocks) |->
                              [ header |-> r.blocks[i].header, input |-> r.blocks[i].input,
                                compressed |-> r.blocks[i].compressed,
                                payload |-> r.blocks[i].payload,
                                written |-> r.blocks[i].written,
                                sent |-> r.blocks[i].sent, by |-> op ]]
  /\ sink_calls' = sink_calls \o r.calls
  /\ last' = [op |-> op, res |-> r.res, n |-> r.n, len |-> len, fault |-> r.fault]
  /\ prev' = last
  /\ nops' = nops + 1
  /\ flushes' = (flushes \/ op = "flush")
  /\ nfail' = nfail + (IF r.fault = "none" THEN 0 ELSE 1)

\* A failure may be injected while the run's budget lasts.
MayFail(f) == f = NoFault \/ nfail < MaxFailures

\* Lz4BlockOutputBase::with_checksum on an empty sink.
Built(bs, r) ==
  /\ block_size' = bs
  /\ IF r.ok
     THEN phase' = "live" /\ SetSelf(r.self)
     ELSE /\ phase' = "rejected"
          /\ UNCHANGED << writer, compression_level, write_ptr, decompressed_buf,
                          decompressed_buf_len, compressed_buf, compressed_buf_len >>

Construct ==
  /\ phase = "new"
  /\ \E bs \in BlockSizes : Built(bs, with_checksum(writer, bs))
  /\ UNCHANGED << pattern, accepted, emitted, sink_calls, last, prev, nops, flushes, nfail >>
  /\ UNCHANGED << file_vars, caller_vars >>

\* Write::write(buf): the caller hands over the next len bytes of its stream.
Wrote(buf, r) ==
  /\ SetSelf(r.self)
  /\ accepted' = accepted \o (IF r.res = "ok" THEN Take(buf, r.n) ELSE <<>>)
  /\ Record("write", Len(buf), r)
  /\ phase' = IF r.res = "panic" THEN "panicked" ELSE phase

Write ==
  /\ phase = "live"
  /\ nops < MaxOps
  /\ \E len \in WriteLens, f \in Faults :
       /\ MayFail(f)
       /\ Wrote(stream_slice(pattern, Len(accepted), len),
                write(Self, stream_slice(pattern, Len(accepted), len), f))
  /\ UNCHANGED << block_size, pattern >>
  /\ UNCHANGED << file_vars, caller_vars >>

\* Write::flush()
Flushed(r) == SetSelf(r.self) /\ Record("flush", 0, r)

Flush ==
  /\ phase = "live"
  /\ nops < MaxOps
  /\ \E f \in Faults : MayFail(f) /\ Flushed(flush(Self, f))
  /\ UNCHANGED << phase, block_size, pattern, accepted >>
  /\ UNCHANGED << file_vars, caller_vars >>

\* The encoder goes out of scope.
Dropped(r) == SetSelf(r.self) /\ Record("drop", 0, r)

DropEncoder ==
  /\ phase = "live"
  /\ \E f \in Faults : MayFail(f) /\ Dropped(drop(Self, f))
  /\ phase' = "dropped"
  /\ UNCHANGED << block_size, pattern, accepted >>
  /\ UNCHANGED << file_vars, caller_vars >>

Next == Construct \/ Write \/ Flush \/ DropEncoder

Spec == Init /\ [][Next]_vars

\* ------------------------------------------------- the caller's write_all

\* A caller gives write_all a buffer of up to MaxWriteAll bytes on a fresh encoder
\* of the smallest block size, over a sink that does not fail.
WriteAllInit ==
  /\ phase = "live"
  /\ block_size = MIN_BLOCK_SIZE
  /\ SetSelfInit(with_checksum(<<>>, MIN_BLOCK_SIZE).self)
  /\ pattern \in Patterns
  /\ accepted = <<>>
  /\ emitted = <<>>
  /\ sink_calls = <<>>
  /\ last = NoCall
  /\ prev = NoCall
  /\ nops = 0
  /\ flushes = FALSE
  /\ nfail = 0
  /\ fd_path = <<>>
  /\ fd_ext = <<>>
  /\ fd_calls = <<>>
  /\ todo \in 0..MaxWriteAll
  /\ wa = "running"

\* Write::write_all, one turn of its loop: write is given what is left of the
\* buffer; Ok(0) and Err end the loop with an error, Ok(n) drops n bytes.
WroteAll(buf, r) ==
  /\ SetSelf(r.self)
  /\ accepted' = accepted \o (IF r.res = "ok" THEN Take(buf, r.n) ELSE <<>>)
  /\ Record("write", Len(buf), r)
  /\ todo' = IF r.res = "ok" THEN todo - r.n ELSE todo
  /\ wa' = IF r.res # "ok" \/ r.n = 0 THEN "failed" ELSE "running"

WriteAllStep ==
  /\ wa = "running"
  /\ todo > 0
  /\ WroteAll(stream_slice(pattern, Len(accepted), todo),
              write(Self, stream_slice(pattern, Len(accepted), todo), NoFault))
  /\ UNCHANGED << phase, block_size, pattern, file_vars >>

\* Write::write_all: the buffer is empty, Ok(()).
WriteAllReturn ==
  /\ wa = "running"
  /\ todo = 0
  /\ wa' = "done"
  /\ UNCHANGED << encoder_vars, file_vars, todo >>

WriteAllNext == WriteAllStep \/ WriteAllReturn

\* The caller's thread runs the loop until it returns.
WriteAllSpec == WriteAllInit /\ [][WriteAllNext]_vars /\ WF_vars(WriteAllNext)

\* ------------------------------------------- output file names (command line)

\* A path or an extension is the sequence of its characters.
PathChars == {"f", "x", ".", "/"}

ExtChars == {"x", "."}

Paths == UNION {[1..k -> PathChars] : k \in 0..MaxPathLen}

Extensions == UNION {[1..k -> ExtChars] : k \in 0..MaxExtLen}

\* Option<&OsStr>
None == [some |-> FALSE, v |-> <<>>]

Some(v) == [some |-> TRUE, v |-> v]

\* The pieces of p between its separators.
RECURSIVE segments(_)
segments(p) ==
  IF \A i \in 1..Len(p) : p[i] # "/" THEN <<p>>
  ELSE LET k == CHOOSE i \in 1..Len(p) : p[i] = "/" /\ \A j \in 1..(i - 1) : p[j] # "/"
       IN <<SubSeq(p, 1, k - 1)>> \o segments(SubSeq(p, k + 1, Len(p)))

is_component(seg) == seg # <<>> /\ seg # <<".">>

\* Path::file_name: the last component when it is a normal one; repeated
\* separators and `.` pieces are no components, and a path that ends in `..` or
\* has no component has no file name.
file_name(p) ==
  LET comps == SelectSeq(segments(p), is_component)
  IN IF comps = <<>> \/ comps[Len(comps)] = <<".", ".">> THEN None
     ELSE Some(comps[Len(comps)])

\* std::path's split of a file name at its last dot: (before, after); a name
\* without a dot is (None, name), and one whose only dot is its first character
\* is (name, None).
rsplit_file_at_dot(file) ==
  IF \A i \in 1..Len(file) : file[i] # "."
  THEN [before |-> None, after |-> Some(file)]
  ELSE LET k == CHOOSE i \in 1..Len(file) :
                  file[i] = "." /\ \A j \in (i + 1)..Len(file) : file[j] # "."
       IN IF k = 1 THEN [before |-> Some(file), after |-> None]
          ELSE [before |-> Some(SubSeq(file, 1, k - 1)),
                after |-> Some(SubSeq(file, k + 1, Len(file)))]

\* Path::file_stem: before.or(after)
file_stem(p) ==
  IF ~file_name(p).some THEN None
  ELSE IF rsplit_file_at_dot(file_name(p).v).before.some
  THEN rsplit_file_at_dot(file_name(p).v).before
  ELSE rsplit_file_at_dot(file_name(p).v).after

\* Path::extension: before.and(after)
extension(p) ==
  IF ~file_name(p).some THEN None
  ELSE IF rsplit_file_at_dot(file_name(p).v).before.some
  THEN rsplit_file_at_dot(file_name(p).v).after
  ELSE None

\* enum FileDesc and the Err of its constructors
Filename(name) == [kind |-> "Filename", name |-> name]

Stdio == [kind |-> "Stdio", name |-> <<>>]

CouldNotGuess == [kind |-> "Err", name |-> <<>>]

\* FileDesc::decompressed
decompressed(compressed_name, ext, to_stdout) ==
  IF to_stdout THEN Stdio
  ELSE IF extension(compressed_name) = Some(ext) /\ file_stem(compressed_name).some
  THEN Filename(file_stem(compressed_name).v)
  ELSE CouldNotGuess

\* FileDesc::compressed
compressed(decompressed_name, ext, to_stdout) ==
  IF to_stdout THEN Stdio
  ELSE Filename(decompressed_name \o <<".">> \o ext)

\* The command line names a file and an extension.
FileInit ==
  /\ phase = "new"
  /\ block_size = 0
  /\ writer = <<>>
  /\ compression_level = 0
  /\ write_ptr = 0
  /\ decompressed_buf = <<>>
  /\ decompressed_buf_len = 0
  /\ compressed_buf = <<>>
  /\ compressed_buf_len = 0
  /\ pattern = "dots"
  /\ accepted = <<>>
  /\ emitted = <<>>
  /\ sink_calls = <<>>
  /\ last = NoCall
  /\ prev = NoCall
  /\ nops = 0
  /\ flushes = FALSE
  /\ nfail = 0
  /\ fd_path \in Paths
  /\ fd_ext \in Extensions
  /\ fd_calls = <<>>
  /\ todo = 0
  /\ wa = "idle"

\* A FileDesc call op on fd_path gave res; a file name it gives is the next call's.
Named(op, to_stdout, res) ==
  /\ fd_calls' = Append(fd_calls, [op |-> op, arg |-> fd_path, to_stdout |-> to_stdout,
                                    res |-> res])
  /\ fd_path' = IF res.kind = "Filename" THEN res.name ELSE fd_path
  /\ UNCHANGED fd_ext
  /\ UNCHANGED << encoder_vars, caller_vars >>

Compress ==
  /\ Len(fd_calls) < MaxCalls
  /\ \E to_stdout \in BOOLEAN :
       Named("compressed", to_stdout, compressed(fd_path, fd_ext, to_stdout))

Decompress ==
  /\ Len(fd_calls) < MaxCalls
  /\ \E to_stdout \in BOOLEAN :
       Named("decompressed", to_stdout, decompressed(fd_path, fd_ext, to_stdout))

FileNext == Compress \/ Decompress

FileSpec == FileInit /\ [][FileNext]_vars

\* ------------------------------------------------------------- properties

\* The encoder was built.
IsBuilt == phase \in {"live", "dropped"}

\* The bytes a decoder gets from block e of the history: the payload verbatim when
\* Raw, decompressed when Lz4.
block_data(e) ==
  IF e.header.compression_method = METHOD_RAW THEN e.payload
  ELSE decompress(e.payload, e.header.decompressed_len).out

\* The bytes of the blocks that reached the sink whole, in order.
RECURSIVE sent_data(_)
sent_data(blocks) ==
  IF blocks = <<>> THEN <<>>
  ELSE (IF Head(blocks).sent THEN block_data(Head(blocks)) ELSE <<>>)
         \o sent_data(Tail(blocks))

\* The failures that stop flush before it has sent the block.
BlockFaults == {"compress", "header", "payload"}

\* C1. Round trip: when no backend or sink failure has occurred and the encoder has
\* just been flushed or has been dropped, decoding the sink's bytes block by block
\* gives exactly the bytes write accepted, in order.
RoundTrip ==
  (nfail = 0 /\ (phase = "dropped" \/ (phase = "live" /\ last.op = "flush")))
    => /\ decode_stream(writer).ok
       /\ decode_stream(writer).out = accepted

\* C1 witness: two blocks were emitted, the caller had to loop on a partial write,
\* and the stream decodes to the accepted bytes.
RoundTripWitness ==
  /\ phase = "dropped" /\ nfail = 0
  /\ prev.op = "write" /\ prev.n < prev.len
  /\ Len(emitted) = 2
  /\ Len(accepted) = 2 * block_size
  /\ decode_stream(writer).out = accepted

\* C2. Block splitting: after k * block_size bytes were written with no explicit
\* flush and no failure, and the encoder was dropped, the sink holds exactly k framed
\* blocks, whatever the sizes of the writes.
BlockSplitting ==
  (phase = "dropped" /\ nfail = 0 /\ ~flushes /\ Len(accepted) % block_size = 0)
    => /\ decode_stream(writer).ok
       /\ decode_stream(writer).blocks = Len(accepted) \div block_size
       /\ Len(emitted) = Len(accepted) \div block_size

\* C2 witness: two blocks' worth of bytes, the second made of small writes.
BlockSplittingWitness ==
  /\ phase = "dropped" /\ nfail = 0 /\ ~flushes
  /\ Len(accepted) = 2 * block_size
  /\ prev.op = "write" /\ prev.len = 63 /\ prev.n = 63
  /\ decode_stream(writer).blocks = 2

\* C3. Raw-vs-compressed policy: every block header written has method Raw when the
\* backend's output for the buffered bytes is at least as long as they are, and Lz4
\* otherwise; a Raw block's payload is the buffered bytes themselves.
RawPolicy ==
  \A i \in 1..Len(emitted) :
    LET e == emitted[i]
        compressed_len == Len(compress(e.input, compressed_buf_len, FALSE).out)
    IN /\ Len(e.input) > 0
       /\ e.header.compression_method =
            (IF compressed_len >= Len(e.input) THEN METHOD_RAW ELSE METHOD_LZ4)
       /\ e.header.compression_method = METHOD_RAW
            => e.payload = e.input /\ e.header.compressed_len = e.header.decompressed_len
       /\ e.header.compression_method = METHOD_LZ4 => e.payload = e.compressed

\* C3 witness: a Raw block whose compressed form was exactly as long as the input,
\* and a later Lz4 block.
RawPolicyWitness ==
  \E i, j \in 1..Len(emitted) :
    /\ emitted[i].header.compression_method = METHOD_RAW
    /\ Len(emitted[i].compressed) = Len(emitted[i].input)
    /\ emitted[j].header.compression_method = METHOD_LZ4

\* C4. Header lengths: every block header written has compressed_len =
\* decompressed_len when Raw and compressed_len <= decompressed_len when Lz4,
\* decompressed_len is the number of buffered bytes, and the payload bytes the sink
\* took after the header number compressed_len (unless the sink failed that write).
HeaderLengths ==
  \A i \in 1..Len(emitted) :
    LET e == emitted[i]
    IN /\ e.header.decompressed_len = Len(e.input)
       /\ e.header.compression_method = METHOD_RAW
            => e.header.compressed_len = e.header.decompressed_len
       /\ e.header.compression_method = METHOD_LZ4
            => e.header.compressed_len <= e.header.decompressed_len
       /\ e.sent => e.written = e.header.compressed_len

\* C4 witness: an Lz4 block, shorter than its input, went to the sink whole.
HeaderLengthsWitness ==
  \E i \in 1..Len(emitted) :
    /\ emitted[i].header.compression_method = METHOD_LZ4
    /\ emitted[i].sent
    /\ emitted[i].written < emitted[i].header.decompressed_len

\* C5. Idempotent flush: a flush that follows a flush which sent its block (it did
\* not fail in compress or in a sink write) leaves the sink's bytes as they were.
FlushIdempotent ==
  [][ ( /\ last.op = "flush" /\ last.fault \notin BlockFaults
        /\ last'.op = "flush" /\ nops' = nops + 1 )
      => writer' = writer ]_vars

\* C5 witness: two flushes in a row, the first of which wrote a block.
FlushIdempotentWitness ==
  /\ last.op = "flush" /\ last.res = "ok"
  /\ prev.op = "flush" /\ prev.res = "ok"
  /\ Len(emitted) = 1 /\ writer # <<>>

\* C6. Empty input: while write has accepted no byte, flushing and dropping the
\* encoder write nothing: the sink is empty and no block header was written.
EmptyInput ==
  (IsBuilt /\ accepted = <<>>) => (writer = <<>> /\ emitted = <<>>)

\* C6 witness: an encoder flushed and then dropped with nothing written.
EmptyInputWitness ==
  /\ phase = "dropped" /\ accepted = <<>> /\ writer = <<>>
  /\ prev.op = "flush" /\ prev.res = "ok" /\ last.op = "drop"

\* C7. Once the encoder is dropped, every byte write accepted is in a block that
\* reached the sink: no buffered byte is silently dropped.
DropLosesNothing ==
  phase = "dropped" => sent_data(emitted) = accepted

\* C8. A failure in a call on a stream that had not failed before is reported to
\* the caller.
FirstFailureReported ==
  (last.fault # "none" /\ nfail = 1) => last.res = "err"

\* C9. Construction: block sizes 64, 65536 and 33554432 build an encoder with
\* that block size; 63 and 33554433, as every size outside [64, 33554432], give an
\* error, no encoder and an untouched sink.
ConstructionValidates ==
  phase # "new" =>
    /\ block_size \in {64, 65536, 33554432}
         => (IsBuilt /\ decompressed_buf_len = block_size)
    /\ block_size \in {63, 33554433} => phase = "rejected"
    /\ phase = "rejected" <=> (block_size < 64 \/ block_size > 33554432)
    /\ phase = "rejected" => (writer = <<>> /\ decompressed_buf_len = 0 /\ nops = 0)

\* C9 witness: a block size one above the range was rejected.
ConstructionWitness ==
  phase = "rejected" /\ block_size = 33554433 /\ writer = <<>>

\* C10. Fill pointer: in every state of a built encoder, after calls that returned
\* Ok and calls that returned an error, 0 <= write_ptr <= block_size, the length of
\* the input buffer fixed at construction.
FillPointerInRange ==
  IsBuilt => /\ 0 <= write_ptr
             /\ write_ptr <= decompressed_buf_len
             /\ decompressed_buf_len = block_size

\* C10 witness: a write that found the buffer full failed in its flush and left
\* the buffer full.
FillPointerWitness ==
  /\ phase = "live" /\ write_ptr = block_size
  /\ last.op = "write" /\ last.res = "err"

\* The fill pointer a write copies at: 0 when it found the buffer full (the implicit
\* flush has reset it), the fill pointer on entry otherwise.
copy_base == IF write_ptr = decompressed_buf_len THEN 0 ELSE write_ptr

\* C11. write: a write that returns Ok(n) has n = min(len(bytes), block_size -
\* fill_pointer), the fill pointer being taken after the implicit flush; the flush
\* (seen as calls on the sink) happens in a write exactly when the buffer is full on
\* entry; the n first bytes of the slice are in the input buffer from that fill
\* pointer on, the bytes before it are untouched, and the fill pointer has advanced
\* by n.
WriteContract ==
  [][ (last'.op = "write" /\ nops' = nops + 1)
      => /\ sink_calls' # sink_calls => write_ptr = decompressed_buf_len
         /\ last'.res = "ok" =>
              /\ last'.n = Min(last'.len, block_size - copy_base)
              /\ write_ptr' = copy_base + last'.n
              /\ (sink_calls' # sink_calls) <=> (write_ptr = decompressed_buf_len)
              /\ SubSeq(decompressed_buf', copy_base + 1, copy_base + last'.n)
                   = stream_slice(pattern, Len(accepted), last'.n)
              /\ slice_to(decompressed_buf', copy_base) = slice_to(decompressed_buf, copy_base)
              /\ accepted' = accepted \o stream_slice(pattern, Len(accepted), last'.n) ]_vars

\* C11 witness: a write of 65 bytes found the buffer full, flushed it as one block
\* and took 64 bytes into the emptied buffer.
WriteContractWitness ==
  /\ last.op = "write" /\ last.res = "ok" /\ last.len = 65 /\ last.n = 64
  /\ prev.op = "write" /\ prev.n = 64
  /\ Len(emitted) = 1 /\ emitted[1].by = "write"
  /\ write_ptr = 64

\* C12 as stated: a write of an empty slice, with no failure injected, returns Ok(0),
\* leaves the fill pointer and the buffered bytes as they were and makes no call on
\* the sink, from every state of the encoder, the buffer exactly full included.
ZeroWriteNoOp ==
  [][ (last'.op = "write" /\ nops' = nops + 1 /\ last'.len = 0 /\ nfail' = 0)
      => /\ last'.res = "ok" /\ last'.n = 0
         /\ write_ptr' = write_ptr
         /\ slice_to(decompressed_buf', write_ptr) = slice_to(decompressed_buf, write_ptr)
         /\ writer' = writer
         /\ sink_calls' = sink_calls ]_vars

\* Write::write_all(buf) on the encoder self with a sink that does not fail: write
\* is called on what is left of buf until nothing is left.
RECURSIVE encoder_write_all(_, _)
encoder_write_all(self, buf) ==
  IF buf = <<>> THEN self
  ELSE LET r == write(self, buf, NoFault)
       IN IF r.res # "ok" \/ r.n = 0 THEN r.self
          ELSE encoder_write_all(r.self, Skip(buf, r.n))

\* The sink of a fresh encoder of this block size that is given only the bytes x
\* and dropped.
fresh_bytes(x) ==
  drop(encoder_write_all(with_checksum(<<>>, block_size).self, x), NoFault).self.writer

\* The bytes written before the last call but one.
before_prev == Take(accepted, Len(accepted) - prev.n)

\* C13. Independent blocks: when the bytes a (1 to block_size of them) were written,
\* the encoder flushed, the bytes b (1 to block_size of them) written in one call and
\* the encoder dropped, with no failure, the sink holds the bytes a fresh encoder
\* produces for a alone followed by those a fresh encoder produces for b alone.
BlocksIndependent ==
  ( /\ phase = "dropped" /\ nfail = 0 /\ flushes
    /\ prev.op = "write" /\ prev.n = prev.len /\ prev.n > 0
    /\ Len(emitted) = 2 /\ emitted[1].by = "flush" /\ emitted[2].by = "drop"
    /\ Len(emitted[1].input) = Len(before_prev) )
    => writer = fresh_bytes(before_prev) \o fresh_bytes(Skip(accepted, Len(before_prev)))

\* C13 witness: 63 bytes, a flush, 1 byte, drop: two blocks, the second shorter
\* than the first, each as a fresh encoder writes it.
BlocksIndependentWitness ==
  /\ phase = "dropped" /\ nfail = 0 /\ flushes
  /\ prev.op = "write" /\ prev.n = 1 /\ Len(accepted) = 64
  /\ Len(emitted) = 2 /\ emitted[1].by = "flush" /\ emitted[2].by = "drop"
  /\ Len(emitted[1].input) = 63
  /\ writer = fresh_bytes(before_prev) \o fresh_bytes(Skip(accepted, 63))
  /\ fresh_bytes(before_prev) # <<>>

\* C14. Checksum: the checksum of every header a call writes is the checksum
\* function applied to decompressed_buf[..write_ptr] as the call found them, whether
\* the block is Raw or Lz4.
ChecksumOfInput ==
  [][ \A i \in (Len(emitted) + 1)..Len(emitted') :
        /\ emitted'[i].header.checksum = checksum_run(slice_to(decompressed_buf, write_ptr))
        /\ emitted'[i].header.compression_method \in {METHOD_RAW, METHOD_LZ4}
        /\ from_le32(SubSeq(header_bytes(emitted'[i].header), 18, 21))
             = checksum_run(slice_to(decompressed_buf, write_ptr)) ]_vars

\* C14 witness: an Lz4 block and a Raw block were written; the Lz4 block's checksum
\* is that of the bytes accepted, and is not that of its payload.
ChecksumOfInputWitness ==
  /\ Len(emitted) = 2 /\ nfail = 0
  /\ emitted[1].header.compression_method = METHOD_LZ4
  /\ emitted[2].header.compression_method = METHOD_RAW
  /\ emitted[1].header.checksum = checksum_run(Take(accepted, 64))
  /\ emitted[1].header.checksum # checksum_run(emitted[1].payload)
  /\ emitted[2].header.checksum = checksum_run(Skip(accepted, 64))

\* A path that names a file: it has a file name and does not end in a separator.
names_file(p) == file_name(p).some /\ p[Len(p)] # "/"

\* An extension of one or more characters other than the dot.
plain_extension(e) == e # <<>> /\ \A i \in 1..Len(e) : e[i] # "."

\* C15 as stated, for the paths that name a file and the plain extensions:
\* compressed(p, e) is p, a dot and e; decompressed of that name with the same e is
\* p again; and decompressed is an error when the extension of its path is not e.
FilenameRoundTrip ==
  \A i \in 1..Len(fd_calls) :
    LET c == fd_calls[i]
    IN (~c.to_stdout /\ plain_extension(fd_ext)) =>
         /\ (c.op = "compressed" /\ names_file(c.arg))
              => /\ c.res = Filename(c.arg \o <<".">> \o fd_ext)
                 /\ (i < Len(fd_calls) /\ fd_calls[i + 1].op = "decompressed"
                       /\ ~fd_calls[i + 1].to_stdout)
                      => fd_calls[i + 1].res = Filename(c.arg)
         /\ (c.op = "decompressed" /\ extension(c.arg) # Some(fd_ext))
              => c.res = CouldNotGuess

\* The calls a step makes on the sink.
new_calls == SubSeq(sink_calls', Len(sink_calls) + 1, Len(sink_calls'))

\* The step is a call on the encoder that runs flush: flush, drop, or a write that
\* finds the buffer full.
runs_flush ==
  /\ nops' = nops + 1
  /\ last'.op \in {"flush", "drop"} \/ (last'.op = "write" /\ write_ptr = decompressed_buf_len)

\* Header first, payload second and only after the whole header was taken, the
\* sink's flush last and only after nothing or a whole block.
calls_in_order(nc) ==
  \A i \in 1..Len(nc) :
    /\ nc[i].call = "header" => i = 1
    /\ nc[i].call = "payload" => (i = 2 /\ nc[1].call = "header" /\ nc[1].ok
                                     /\ nc[1].n = HEADER_LEN)
    /\ nc[i].call = "flush" => (i = Len(nc) /\ (i = 1 \/ (i = 3 /\ nc[2].ok)))

\* C16. Sink calls of flush: a flush (explicit, in drop, or in a write that finds
\* the buffer full) in which nothing fails makes, when bytes are buffered, three
\* calls on the sink: the whole header, the chosen payload (the buffered bytes when
\* Raw, the compressed bytes when Lz4), the sink's flush; with an empty buffer it
\* writes no byte and calls the sink's flush once. The fill pointer is 0 after every
\* flush that returned Ok, and the calls of any flush keep that order.
SinkCallOrder ==
  [][ /\ calls_in_order(new_calls)
      /\ (last'.op = "flush" /\ last'.res = "ok") => write_ptr' = 0
      /\ (nops' = nops + 1 /\ ~runs_flush) => (new_calls = <<>> /\ writer' = writer)
      /\ (runs_flush /\ last'.fault = "none" /\ write_ptr = 0)
           => /\ new_calls = <<SinkCall("flush", TRUE, 0)>>
              /\ writer' = writer /\ emitted' = emitted
      /\ (runs_flush /\ last'.fault = "none" /\ write_ptr > 0)
           => /\ Len(emitted') = Len(emitted) + 1
              /\ new_calls = << SinkCall("header", TRUE, HEADER_LEN),
                                SinkCall("payload", TRUE,
                                         Len(emitted'[Len(emitted')].payload)),
                                SinkCall("flush", TRUE, 0) >>
              /\ emitted'[Len(emitted')].payload =
                   (IF emitted'[Len(emitted')].header.compression_method = METHOD_RAW
                    THEN slice_to(decompressed_buf, write_ptr)
                    ELSE emitted'[Len(emitted')].compressed)
              /\ writer' = writer \o header_bytes(emitted'[Len(emitted')].header)
                                  \o emitted'[Len(emitted')].payload ]_vars

\* C16 witness: a flush wrote one block (header, payload, sink flush) and the next
\* flush, on the empty buffer, only called the sink's flush.
SinkCallOrderWitness ==
  /\ last.op = "flush" /\ last.res = "ok" /\ prev.op = "flush" /\ prev.res = "ok"
  /\ write_ptr = 0 /\ Len(emitted) = 1 /\ nfail = 0
  /\ Len(sink_calls) = 4
  /\ sink_calls[1] = SinkCall("header", TRUE, HEADER_LEN)
  /\ sink_calls[2] = SinkCall("payload", TRUE, Len(emitted[1].payload))
  /\ sink_calls[3].call = "flush" /\ sink_calls[4].call = "flush"
  /\ Len(writer) = HEADER_LEN + Len(emitted[1].payload)

\* C17. Failures in flush: when compress, the header write or the payload write fails
\* in a flush or in a write that flushes the full buffer, the call returns the error,
\* the failed call is the last call made on the sink (none after a compress failure,
\* and never the sink's flush), the fill pointer and the buffered bytes are as
\* before, and the write has consumed nothing of its slice.
FailureKeepsBuffer ==
  [][ (nops' = nops + 1 /\ last'.op \in {"write", "flush"} /\ last'.fault \in BlockFaults)
      => /\ last'.res = "err" /\ last'.n = 0
         /\ write_ptr' = write_ptr
         /\ decompressed_buf' = decompressed_buf
         /\ accepted' = accepted
         /\ last'.fault = "compress" => new_calls = <<>>
         /\ last'.fault # "compress"
              => /\ new_calls # <<>>
                 /\ new_calls[Len(new_calls)].call = last'.fault
                 /\ ~new_calls[Len(new_calls)].ok
         /\ \A i \in 1..Len(new_calls) :
              /\ new_calls[i].call # "flush"
              /\ i < Len(new_calls) => new_calls[i].ok ]_vars

\* C17 witness: a write of 65 bytes found the buffer full and the payload write of
\* its flush failed after the header: Err, the buffer still full, nothing consumed.
FailureKeepsBufferWitness ==
  /\ last.op = "write" /\ last.res = "err" /\ last.fault = "payload" /\ last.len = 65
  /\ write_ptr = 64 /\ Len(accepted) = 64
  /\ slice_to(decompressed_buf, write_ptr) = accepted
  /\ Len(sink_calls) = 2 /\ sink_calls[1].ok /\ ~sink_calls[2].ok
  /\ sink_calls[2].call = "payload"

\* The input lengths the sizing is checked at: those of the smallest block, the
\* fill pointer, and the block size.
SizedLens == (1..MIN_BLOCK_SIZE) \cup {write_ptr, block_size}

\* C18. Staging buffer: in every state of a built encoder the staging buffer has
\* the length computed at construction (the backend's estimate for the size class's
\* largest block), which is at least the backend's estimate for every input length
\* from 1 to block_size; the input buffer has block_size bytes; the bytes compress
\* produced for every block fit the staging buffer, and no call fails without an
\* injected failure, so compress never finds the buffer too small.
StagingBufferFits ==
  IsBuilt =>
    /\ compressed_buf_len =
         get_maximum_compressed_buffer_len(get_max_decompressed_buffer_len(compression_level))
    /\ compression_level = from_block_size(block_size).level
    /\ decompressed_buf_len = block_size
    /\ \A n \in SizedLens :
         (1 <= n /\ n <= block_size) => compressed_buf_len >= get_maximum_compressed_buffer_len(n)
    /\ Len(compressed_buf) <= compressed_buf_len
    /\ Len(decompressed_buf) <= decompressed_buf_len
    /\ \A i \in 1..Len(emitted) : Len(emitted[i].compressed) <= compressed_buf_len
    /\ ~(last.res = "err" /\ last.fault = "none")

\* C18 witness: the backend gave more bytes than the block size for a full block,
\* and they fitted the staging buffer.
StagingBufferFitsWitness ==
  /\ IsBuilt /\ block_size = MIN_BLOCK_SIZE
  /\ \E i \in 1..Len(emitted) :
       /\ Len(emitted[i].input) = block_size
       /\ Len(emitted[i].compressed) > block_size
       /\ Len(emitted[i].compressed) <= compressed_buf_len
       /\ emitted[i].sent

\* ceil(n / d)
ceil_div(n, d) == (n + d - 1) \div d

\* While write_all runs and when it has returned: no write of a non-empty slice has
\* returned Ok(0) or an error, and the blocks emitted number at most
\* ceil(n / block_size), n being the bytes given to write_all.
write_all_bounded ==
  /\ wa # "failed"
  /\ (last.op = "write" /\ last.len > 0) => (last.res = "ok" /\ last.n >= 1)
  /\ nops <= Len(accepted)
  /\ Len(emitted) <= ceil_div(Len(accepted) + todo, block_size)
  /\ Len(emitted) * block_size + write_ptr = Len(accepted)

\* C19. Write progress: over a sink that does not fail, every write that write_all
\* makes takes at least one byte, so the calls made never outnumber the bytes taken;
\* write_all never returns an error and, until it has returned Ok, the guard of
\* WriteAllStep or of WriteAllReturn holds, so its next turn can be taken: it
\* returns after at most n calls for a buffer of n bytes, and at
\* most ceil(n / block_size) blocks have been emitted by then (the final flush is
\* still to come).
WriteAllTerminates ==
  /\ write_all_bounded
  /\ Len(accepted) + todo <= MaxWriteAll
  /\ wa = "done" => todo = 0
  /\ wa = "done" \/ (wa = "running" /\ (todo > 0 \/ todo = 0))

\* C19 witness: write_all of 130 bytes returned after three writes (64, 64 and 2
\* bytes) and two blocks.
WriteAllTerminatesWitness ==
  /\ wa = "done" /\ Len(accepted) = 130 /\ nops = 3
  /\ Len(emitted) = 2 /\ write_ptr = 2
  /\ prev.n = 64 /\ last.n = 2

\* The bytes of the blocks as the sink holds them: each header, then its payload.
RECURSIVE framed(_)
framed(blocks) ==
  IF blocks = <<>> THEN <<>>
  ELSE header_bytes(Head(blocks).header) \o Head(blocks).payload \o framed(Tail(blocks))

\* While no write on the sink has failed, the sink holds whole blocks only.
whole_blocks ==
  (\A i \in 1..Len(sink_calls) : sink_calls[i].ok \/ sink_calls[i].call = "flush")
    => /\ writer = framed(emitted)
       /\ decode_stream(writer).ok
       /\ decode_stream(writer).blocks = Len(emitted)

\* C20. Deferred emission: a write changes the sink only when it finds the buffer
\* exactly full; a write that finds room emits nothing, also when it fills the
\* buffer, and the bytes a write accepts are all still buffered when it returns; a
\* full buffer is emitted by the next call, whatever it is (a write of any length,
\* a flush, drop), unless compress or a sink write fails in it; and while no sink
\* write has failed the sink holds a whole number of complete blocks.
DeferredEmission ==
  /\ [][ /\ (last'.op = "write" /\ nops' = nops + 1)
              => /\ writer' # writer => write_ptr = decompressed_buf_len
                 /\ write_ptr < decompressed_buf_len
                      => (writer' = writer /\ emitted' = emitted /\ sink_calls' = sink_calls)
                 /\ last'.res = "ok" => write_ptr' >= last'.n
         /\ (nops' = nops + 1 /\ write_ptr = decompressed_buf_len
               /\ last'.fault \notin BlockFaults)
              => /\ Len(emitted') = Len(emitted) + 1
                 /\ emitted'[Len(emitted')].input = slice_to(decompressed_buf, write_ptr)
                 /\ Len(emitted'[Len(emitted')].input) = block_size
                 /\ emitted'[Len(emitted')].sent ]_vars
  /\ []whole_blocks

\* C20 witness: a write of 64 bytes filled the buffer and emitted nothing; the
\* write of an empty slice that followed sent the block.
DeferredEmissionWitness ==
  /\ prev.op = "write" /\ prev.n = 64 /\ nops = 2
  /\ last.op = "write" /\ last.len = 0 /\ last.res = "ok"
  /\ Len(emitted) = 1 /\ emitted[1].by = "write" /\ emitted[1].input = accepted
  /\ writer = framed(emitted) /\ writer # <<>>
  /\ write_ptr = 0

\* C21. Block lengths: every header written has 1 <= decompressed_len <= block_size,
\* in the history and in the bytes 14..17 of the header as the sink gets it; a block
\* emitted by the flush inside write has decompressed_len = block_size, so a shorter
\* block comes from an explicit flush or from drop.
BlockLengthBounds ==
  \A i \in 1..Len(emitted) :
    /\ 1 <= emitted[i].header.decompressed_len
    /\ emitted[i].header.decompressed_len <= block_size
    /\ from_le32(SubSeq(header_bytes(emitted[i].header), 14, 17)) = Len(emitted[i].input)
    /\ emitted[i].by = "write" => emitted[i].header.decompressed_len = block_size
    /\ emitted[i].header.decompressed_len < block_size => emitted[i].by \in {"flush", "drop"}

\* C21 witness: a full block emitted by a write, then a block of one byte emitted
\* by drop.
BlockLengthBoundsWitness ==
  /\ phase = "dropped" /\ Len(emitted) = 2
  /\ emitted[1].by = "write" /\ emitted[1].header.decompressed_len = block_size
  /\ emitted[2].by = "drop" /\ emitted[2].header.decompressed_len = 1

====
